---- MODULE Spec2Model ----
(***************************************************************************)
(* Persistence, remote mirroring, graph construction and pipe serving of   *)
(* chess_zero/agent/model_chess.py (ChessModel and BetterChessModel).      *)
(*                                                                         *)
(* A file is a sequence of tokens ("bytes"); Absent is a path with no      *)
(* file.  The architecture file and the weight file live in two path       *)
(* namespaces (a .json and a .h5 file).  The remote store is the one       *)
(* remote directory with model_best_config.json and model_best_weight.h5.  *)
(***************************************************************************)
EXTENDS Integers, Sequences, FiniteSets, TLC

VARIABLES config, model, digest, api, endpoints, fs_config, fs_weight, remote, last

vars == <<config, model, digest, api, endpoints, fs_config, fs_weight, remote, last>>

\* ---------------------------------------------------------------- bounds

\* Distinct parameter values a graph can carry (initialisation, training).
MaxWeight == 2
\* Largest num passed to get_pipes.
MaxNum == 2
\* Cap on the channels one serving endpoint hands out.
MaxPipes == 3
\* Largest res_layer_num of a Config.
MaxResLayers == 1

\* ------------------------------------------------------------- constants

\* An optional value is <<>> (Python's None, a path with no file) or <<x>>.
None == <<>>
Absent == <<>>
Some(x) == <<x>>
Get(o) == o[1]

Instances == {"a", "b"}
\* The class of each instance: a is a ChessModel, b a BetterChessModel.
ClassOf(i) == IF i = "a" THEN "ChessModel" ELSE "BetterChessModel"

\* resources.model_best_config_path / model_best_weight_path and one other slot.
model_best_config_path == "model_best_config.json"
model_best_weight_path == "model_best_weight.h5"
ConfigPaths == {model_best_config_path, "next_config.json"}
WeightPaths == {model_best_weight_path, "next_weight.h5"}

Weights == 1..MaxWeight
\* config.n_labels values (1968 is the size of the UCI move encoding).
LabelCounts == {1, 1968}
\* The Configs of the persistence specifications, and those of SpecBuild.
Configs == [distributed : BOOLEAN, n_labels : {1968},
            res_layer_num : {MaxResLayers}, cnn_filter_num : {256},
            cnn_first_filter_size : {5}, cnn_filter_size : {3},
            value_fc_size : {256}]
BuildConfigs == [distributed : BOOLEAN, n_labels : LabelCounts,
                 res_layer_num : 0..MaxResLayers, cnn_filter_num : {1, 256},
                 cnn_first_filter_size : {5}, cnn_filter_size : {3},
                 value_fc_size : {1, 256}]

\* BetterChessModel.__init__
blocks_count == 6
channels == 128
conv_along_axis_channels == 16
conv15_channels == 4
conv5_channels == channels - conv_along_axis_channels * 2 - conv15_channels

\* ------------------------------------------------- graph construction
\* A tensor is its shape <<channels, height, width>> or <<units>>; TypeError
\* (no shape) is the outcome of a construction step that raises.

TypeError == <<>>
IsTensor(x) == x # TypeError

Input == <<18, 8, 8>>
\* Conv2D / SeparableConv2D, channels_first, padding "same".
Conv2D(x, filters) == IF IsTensor(x) THEN <<filters, x[2], x[3]>> ELSE TypeError
Flatten(x) == IF IsTensor(x) THEN <<x[1] * x[2] * x[3]>> ELSE TypeError
Dense(x, units) == IF IsTensor(x) THEN <<units>> ELSE TypeError
\* Add keeps the shape of its (equal-shaped) inputs.
Add(x, y) == IF IsTensor(x) /\ IsTensor(y) /\ x = y THEN x ELSE TypeError
\* Calling a tensor as if it were a layer.
CallTensor(t, arg) == TypeError

build_residual_block(mc, x) == Add(x, Conv2D(Conv2D(x, mc.cnn_filter_num), mc.cnn_filter_num))

RECURSIVE ResidualTower(_, _, _)
ResidualTower(mc, x, n) ==
    IF n = 0 THEN x ELSE ResidualTower(mc, build_residual_block(mc, x), n - 1)

\* The graph Model(in_x, [policy_out, value_out]) of a tower output res_out,
\* or None when the construction raised before reaching it: its input, the
\* number of blocks, the kernel sizes of its tower's convolutions in the
\* order they were built, the tower's output,
\* the widths of the policy output, of the value head's hidden layer and of
\* the value output.
GraphOf(res_out, mc, blocks, kernels) ==
    IF ~IsTensor(res_out) THEN None
    ELSE Some([input |-> Input, blocks |-> blocks, kernels |-> kernels,
          tower |-> res_out,
          policy_out |-> Dense(Flatten(Conv2D(res_out, 2)), mc.n_labels)[1],
          value_fc |-> Dense(Flatten(Conv2D(res_out, 4)), mc.value_fc_size)[1],
          value_out |-> Dense(Dense(Flatten(Conv2D(res_out, 4)), mc.value_fc_size), 1)[1]])

\* The kernel sizes of the convolutions ChessModel.build makes: the stem's,
\* then two per residual block (none when res_layer_num is 0).
TowerKernels(mc) ==
    <<mc.cnn_first_filter_size>>
    \o [k \in 1..(2 * mc.res_layer_num) |-> mc.cnn_filter_size]

\* ChessModel.build
ChessModel_build(mc) ==
    GraphOf(ResidualTower(mc, Conv2D(Input, mc.cnn_filter_num), mc.res_layer_num),
            mc, mc.res_layer_num, TowerKernels(mc))

pointwise_conv(layer, ch) == Conv2D(layer, ch)
separable_conv(layer, ch) == Conv2D(layer, ch)
pointwise_and_separable(layer, ch) == CallTensor(pointwise_conv(layer, ch), layer)

Concatenate(ts) ==
    IF \E k \in 1..Len(ts) : ~IsTensor(ts[k]) THEN TypeError
    ELSE <<ts[1][1] + ts[2][1] + ts[3][1] + ts[4][1], ts[1][2], ts[1][3]>>

custom_layer(previous) ==
    Concatenate(<<separable_conv(previous, conv5_channels),
                  pointwise_and_separable(previous, conv15_channels),
                  pointwise_and_separable(previous, conv_along_axis_channels),
                  pointwise_and_separable(previous, conv_along_axis_channels)>>)

RECURSIVE CustomTower(_, _)
CustomTower(x, n) == IF n = 0 THEN x ELSE CustomTower(custom_layer(x), n - 1)

\* BetterChessModel.build
BetterChessModel_build(mc) ==
    GraphOf(CustomTower(pointwise_conv(Input, channels), blocks_count), mc,
            blocks_count, <<1>> \o [k \in 1..blocks_count |-> 5])

BuildGraph(cls, mc) ==
    IF cls = "ChessModel" THEN ChessModel_build(mc) ELSE BetterChessModel_build(mc)

\* ------------------------------------------------------- serialisation
\* A complete file is one token; a file cut short by a failed transfer, or
\* opened for writing and never written, is the empty sequence.

\* json.dump(model.get_config()): the architecture as a document.
json_dump(arch) ==
    << <<"layers", arch.input, arch.blocks, arch.kernels, arch.tower, arch.value_fc,
         "output_layers", arch.policy_out, arch.value_out>> >>

\* json.load accepts a complete document only.
IsJson(bytes) ==
    /\ Len(bytes) = 1
    /\ bytes[1][1] = "layers"
    /\ bytes[1][7] = "output_layers"

\* from_config that drops the residual blocks of the document.
from_config_NoBlocks(bytes) ==
    [input |-> bytes[1][2], blocks |-> 0, kernels |-> bytes[1][4],
     tower |-> bytes[1][5], value_fc |-> bytes[1][6],
     policy_out |-> bytes[1][8], value_out |-> bytes[1][9]]
\* Model.from_config(json.load(f)), defined on IsJson documents.
from_config(bytes) ==
    [input |-> bytes[1][2], blocks |-> bytes[1][3], kernels |-> bytes[1][4],
     tower |-> bytes[1][5], value_fc |-> bytes[1][6],
     policy_out |-> bytes[1][8], value_out |-> bytes[1][9]]

\* The parameter shapes a weight file must match: the number of blocks, the
\* kernel size of each convolution built, the filter count and the widths of
\* the three dense layers.
ShapeSig(arch) ==
    <<arch.blocks>> \o arch.kernels
    \o <<arch.tower[1], arch.policy_out, arch.value_fc, arch.value_out>>

\* model.save_weights: the shapes, then the values.
save_weights(g) == << Append(ShapeSig(g.arch), g.weights) >>

\* The values model.load_weights reads from a complete file.
load_weights(bytes) == bytes[1][Len(bytes[1])]

\* model.load_weights succeeds on a complete file whose shapes match.
CanLoadWeights(arch, bytes) ==
    /\ Len(bytes) = 1
    /\ SubSeq(bytes[1], 1, Len(bytes[1]) - 1) = ShapeSig(arch)

\* A persisted pair that load() can read: a complete architecture document
\* and a complete weight file of matching shapes.
ValidPair(cfile, wfile) ==
    /\ cfile # Absent /\ wfile # Absent
    /\ IsJson(Get(cfile))
    /\ CanLoadWeights(from_config(Get(cfile)), Get(wfile))

HexBase == 2 ^ 4
RECURSIVE HexDigits(_)
\* The hexadecimal digits of a number.
HexDigits(n) ==
    IF n < HexBase THEN <<n>> ELSE Append(HexDigits(n \div HexBase), n % HexBase)

RECURSIVE HexOf(_)
\* The digits of each number of a token, each number closed by a separator.
HexOf(token) ==
    IF token = <<>> THEN <<>>
    ELSE HexOf(SubSeq(token, 1, Len(token) - 1))
         \o HexDigits(token[Len(token)]) \o <<HexBase>>

RECURSIVE hexdigest(_)
\* hashlib.sha256(bytes).hexdigest(): one digit string per byte sequence.
hexdigest(bytes) ==
    IF bytes = <<>> THEN <<HexBase>>
    ELSE hexdigest(SubSeq(bytes, 1, Len(bytes) - 1)) \o HexOf(bytes[Len(bytes)])

Prefix(bytes, k) == SubSeq(bytes, 1, k)

\* ------------------------------------------------------------ remote

\* load line 136, save line 176: when the remote store is contacted.
UsesRemote(mc, config_path, weight_path) ==
    mc.distributed /\ config_path = model_best_config_path

Bytes(file) == IF file = Absent THEN <<>> ELSE Get(file)

\* The try block of load: every way the session can end (the step that
\* raised, or "ok"), with the local files it leaves.  open(path, 'wb')
\* truncates the local file before its transfer starts; a failed transfer
\* leaves a prefix of the remote file (all of it when only the closing reply
\* failed), and a file the remote store lacks cannot be transferred.
RemoteFetch(cfile, wfile, rem) ==
    {[config |-> cfile, weight |-> wfile, ftp |-> o] : o \in {"connect", "cwd"}}
    \cup {[config |-> Some(Prefix(Bytes(rem.config), k)), weight |-> wfile,
           ftp |-> "retr_config"] : k \in 0..Len(Bytes(rem.config))}
    \cup (IF rem.config = Absent THEN {}
          ELSE {[config |-> rem.config, weight |-> Some(Prefix(Bytes(rem.weight), k)),
                 ftp |-> "retr_weight"] : k \in 0..Len(Bytes(rem.weight))})
    \cup (IF rem.config = Absent \/ rem.weight = Absent THEN {}
          ELSE {[config |-> rem.config, weight |-> rem.weight, ftp |-> o] :
                o \in {"quit", "ok"}})

\* The try block of save: every way the session can end, with the remote
\* store it leaves.  A failed upload leaves the remote file as it was or a
\* prefix of the local file.
RemotePush(cfile, wfile, rem) ==
    {[remote |-> rem, ftp |-> o] : o \in {"connect", "cwd", "stor_config"}}
    \cup {[remote |-> [rem EXCEPT !.config = Some(Prefix(Bytes(cfile), k))],
           ftp |-> "stor_config"] : k \in 0..Len(Bytes(cfile))}
    \cup {[remote |-> [config |-> cfile, weight |-> rem.weight], ftp |-> "stor_weight"]}
    \cup {[remote |-> [config |-> cfile, weight |-> Some(Prefix(Bytes(wfile), k))],
           ftp |-> "stor_weight"] : k \in 0..Len(Bytes(wfile))}
    \cup {[remote |-> [config |-> cfile, weight |-> wfile], ftp |-> o] :
          o \in {"quit", "ok"}}

\* Swallow without the bare except: a failed step raises out of save.
Swallow_Propagate(o) == IF o \in {"none", "ok"} THEN "returned" ELSE "raised"
\* except: pass -- what the caller sees of a session that ended at step o.
Swallow(o) == "returned"

\* ------------------------------------------------------------ digest

\* fetch_digest without m.update(f.read()): the digest of no bytes.
fetch_digest_NoUpdate(wfile) == IF wfile # Absent THEN Some(hexdigest(<<>>)) ELSE None
\* ChessModel.fetch_digest, of the file at weight_path.
fetch_digest(wfile) == IF wfile # Absent THEN Some(hexdigest(Get(wfile))) ELSE None

\* ------------------------------------------------------------- state

\* A call as its caller sees it: the operation, the instance, the paths, the
\* result ("True", "False", "returned", "raised"), the step at which its
\* remote session ended ("none": no session) and, for get_pipes, num and the
\* channels returned.
Call(op, i, c, w, result, ftp, num, pipes) ==
    [op |-> op, inst |-> i, cpath |-> c, wpath |-> w, result |-> result,
     ftp |-> ftp, num |-> num, pipes |-> pipes]

\* The remote store before the first call: empty, or holding the pair
\* another machine built from the same Config and pushed.
RemoteInit(mc) ==
    {[config |-> Absent, weight |-> Absent]}
    \cup {[config |-> Some(json_dump(Get(ChessModel_build(mc)))),
           weight |-> Some(save_weights([arch |-> Get(ChessModel_build(mc)),
                                         weights |-> MaxWeight]))]}

\* ChessModel.__init__ of every instance, with an empty local store and a
\* remote store that is empty or holds the pair another machine pushed.
InitOver(cfgs) ==
    /\ config \in cfgs
    /\ model = [i \in Instances |-> None]
    /\ digest = [i \in Instances |-> None]
    /\ api = [i \in Instances |-> None]
    /\ endpoints = <<>>
    /\ fs_config = [p \in ConfigPaths |-> Absent]
    /\ fs_weight = [p \in WeightPaths |-> Absent]
    /\ remote \in RemoteInit(config)
    /\ last = Call("init", "a", "", "", "returned", "none", 0, <<>>)

Init == InitOver(Configs)

\* ChessModel.build / BetterChessModel.build; w0 is the fresh initialisation.
build(i, w0) ==
    LET g == BuildGraph(ClassOf(i), config) IN
    /\ model' = [model EXCEPT ![i] =
                    IF g = None THEN @ ELSE Some([arch |-> Get(g), weights |-> w0])]
    /\ last' = Call("build", i, "", "", IF g = None THEN "raised" ELSE "returned",
                    "none", 0, <<>>)
    /\ UNCHANGED <<config, digest, api, endpoints, fs_config, fs_weight, remote>>

\* LoadLocal that clears the graph before reading the files.
LoadLocal_ResetOnMissing(m, d, cfile, wfile, w0) ==
    IF cfile # Absent /\ wfile # Absent /\ ValidPair(cfile, wfile)
    THEN [model |-> Some([arch |-> from_config(Get(cfile)), weights |-> load_weights(Get(wfile))]),
          digest |-> fetch_digest(wfile), result |-> "True"]
    ELSE [model |-> None, digest |-> d,
          result |-> IF cfile # Absent /\ wfile # Absent THEN "raised" ELSE "False"]

\* load lines 148-159 on the local files cfile, wfile: the graph, the digest
\* and the result.  w0 is the initialisation from_config gives the new graph.
LoadLocal(m, d, cfile, wfile, w0) ==
    IF cfile # Absent /\ wfile # Absent
    THEN IF ~IsJson(Get(cfile))
         THEN [model |-> m, digest |-> d, result |-> "raised"]
         ELSE LET arch == from_config(Get(cfile)) IN
              IF ~CanLoadWeights(arch, Get(wfile))
              THEN [model |-> Some([arch |-> arch, weights |-> w0]), digest |-> d,
                    result |-> "raised"]
              ELSE [model |-> Some([arch |-> arch, weights |-> load_weights(Get(wfile))]),
                    digest |-> fetch_digest(wfile), result |-> "True"]
    ELSE [model |-> m, digest |-> d, result |-> "False"]

\* The initialisations of the graph from_config creates that a caller can
\* observe: load_weights overwrites them unless it raises.
FreshWeights(cfile, wfile) ==
    IF cfile # Absent /\ wfile # Absent /\ IsJson(Get(cfile))
       /\ ~CanLoadWeights(from_config(Get(cfile)), Get(wfile))
    THEN Weights ELSE {1}

\* ChessModel.load
load(i, c, w) ==
    \E f \in (IF UsesRemote(config, c, w)
              THEN RemoteFetch(fs_config[c], fs_weight[w], remote)
              ELSE {[config |-> fs_config[c], weight |-> fs_weight[w], ftp |-> "none"]}) :
      \E w0 \in FreshWeights(f.config, f.weight) :
        LET r == LoadLocal(model[i], digest[i], f.config, f.weight, w0) IN
        /\ fs_config' = [fs_config EXCEPT ![c] = f.config]
        /\ fs_weight' = [fs_weight EXCEPT ![w] = f.weight]
        /\ model' = [model EXCEPT ![i] = r.model]
        /\ digest' = [digest EXCEPT ![i] = r.digest]
        /\ last' = Call("load", i, c, w, r.result, f.ftp, 0, <<>>)
        /\ UNCHANGED <<config, api, endpoints, remote>>

\* SaveLocal that does not overwrite a weight file that exists.
SaveLocal_KeepExisting(m, d, cfile, wfile) ==
    IF m = None
    THEN [config |-> Some(<<>>), weight |-> wfile, digest |-> d, result |-> "raised"]
    ELSE LET wnew == IF wfile = Absent THEN Some(save_weights(Get(m))) ELSE wfile IN
         [config |-> Some(json_dump(Get(m).arch)), weight |-> wnew,
          digest |-> fetch_digest(wnew), result |-> "returned"]

\* save lines 167-172 on the graph m: the two local files, the digest and
\* whether the block returned.  open(config_path, "wt") comes first.
SaveLocal(m, d, cfile, wfile) ==
    IF m = None
    THEN [config |-> Some(<<>>), weight |-> wfile, digest |-> d, result |-> "raised"]
    ELSE LET wnew == Some(save_weights(Get(m))) IN
         [config |-> Some(json_dump(Get(m).arch)), weight |-> wnew,
          digest |-> fetch_digest(wnew), result |-> "returned"]

\* ChessModel.save
save(i, c, w) ==
    LET s == SaveLocal(model[i], digest[i], fs_config[c], fs_weight[w]) IN
    \E p \in (IF s.result = "returned" /\ UsesRemote(config, c, w)
              THEN RemotePush(s.config, s.weight, remote)
              ELSE {[remote |-> remote, ftp |-> "none"]}) :
        /\ fs_config' = [fs_config EXCEPT ![c] = s.config]
        /\ fs_weight' = [fs_weight EXCEPT ![w] = s.weight]
        /\ digest' = [digest EXCEPT ![i] = s.digest]
        /\ remote' = p.remote
        /\ last' = Call("save", i, c, w,
                        IF s.result = "raised" THEN "raised" ELSE Swallow(p.ftp),
                        p.ftp, 0, <<>>)
        /\ UNCHANGED <<config, model, api, endpoints>>

\* ChessModelAPI(agent_model), start() and create_pipe(): an endpoint is its
\* owner, the times it was started and the channels it has handed out.
ChessModelAPI(i) == [owner |-> i, started |-> 0, pipes |-> 0]
api_start(e) == [e EXCEPT !.started = @ + 1]
create_pipe(e) == [e EXCEPT !.pipes = @ + 1]

RECURSIVE create_pipes(_, _)
create_pipes(e, n) == IF n = 0 THEN e ELSE create_pipes(create_pipe(e), n - 1)

\* NeedsApi without the None test: an endpoint per call.
NeedsApiAlways(a) == TRUE
\* get_pipes line 55: if self.api is None
NeedsApi(a) == a = None

\* ChessModel.get_pipes: channel <<e, k>> is the k-th channel of endpoint e.
get_pipes(i, num) ==
    LET fresh == NeedsApi(api[i])
        eps == IF fresh THEN Append(endpoints, api_start(ChessModelAPI(i)))
               ELSE endpoints
        e == IF fresh THEN Len(eps) ELSE Get(api[i])
        base == eps[e].pipes
    IN  /\ base + num <= MaxPipes
        /\ api' = [api EXCEPT ![i] = Some(e)]
        /\ endpoints' = [eps EXCEPT ![e] = create_pipes(@, num)]
        /\ last' = Call("get_pipes", i, "", "", "returned", "none", num,
                        [k \in 1..num |-> <<e, base + k>>])
        /\ UNCHANGED <<config, model, digest, fs_config, fs_weight, remote>>

\* One ChessModel instance, called on every path pair.
Next ==
    \/ \E w0 \in Weights : build("a", w0)
    \/ \E c \in ConfigPaths, w \in WeightPaths : load("a", c, w)
    \/ \E c \in ConfigPaths, w \in WeightPaths : save("a", c, w)

Spec == Init /\ [][Next]_vars

\* Two instances sharing one weight path: a builds, saves and loads, and b
\* loads what a saved.
NextTwo ==
    \/ \E w0 \in Weights : build("a", w0)
    \/ \E c \in ConfigPaths : save("a", c, model_best_weight_path)
    \/ \E i \in Instances, c \in ConfigPaths : load(i, c, model_best_weight_path)

SpecTwo == Init /\ [][NextTwo]_vars

\* One instance serving pipes between build, load and save of the best slot.
NextPipes ==
    \/ \E num \in 0..MaxNum : get_pipes("a", num)
    \/ \E w0 \in Weights : build("a", w0)
    \/ load("a", model_best_config_path, model_best_weight_path)
    \/ save("a", model_best_config_path, model_best_weight_path)

SpecPipes == Init /\ [][NextPipes]_vars

\* build() of both classes over a range of Configs.
NextBuild == \E i \in Instances, w0 \in Weights : build(i, w0)

SpecBuild == InitOver(BuildConfigs) /\ [][NextBuild]_vars

\* ------------------------------------------------- claims on one instance
\* Every step that changes the state is a call, and last' is that call: its
\* operation, instance, paths, result and the way its remote session ended.

\* The files cfile, wfile hold graph g: they read back as its architecture
\* and its weight values.
Holds(cfile, wfile, g) ==
    /\ ValidPair(cfile, wfile)
    /\ from_config(Get(cfile)) = g.arch
    /\ load_weights(Get(wfile)) = g.weights

\* C1: a load() that finds one of the two files missing at its existence
\* check returns False and leaves the graph and the digest as they were.
C1_LoadMissingFile ==
    [][(/\ last'.op = "load"
        /\ (fs_config'[last'.cpath] = Absent \/ fs_weight'[last'.wpath] = Absent))
           => (last'.result = "False" /\ model' = model /\ digest' = digest)]_vars

\* C1 witness: load() returned False with exactly one file present, on an
\* instance that holds a graph and a digest from an earlier save or load.
C1_Witness ==
    /\ last.op = "load" /\ last.result = "False"
    /\ (fs_config[last.cpath] = Absent) # (fs_weight[last.wpath] = Absent)
    /\ model[last.inst] # None /\ digest[last.inst] # None

\* C2: in distributed mode, with a valid pair at the canonical paths before
\* the call, load() returns True with a graph whatever the fetch attempt did.
C2_LocalLoadNeedsNoRemote ==
    [][(/\ config.distributed
        /\ ValidPair(fs_config[model_best_config_path], fs_weight[model_best_weight_path])
        /\ last'.op = "load"
        /\ last'.cpath = model_best_config_path
        /\ last'.wpath = model_best_weight_path)
           => (last'.result = "True" /\ model'[last'.inst] # None)]_vars

\* C3: a save() on an instance that holds a graph leaves the two files
\* holding that graph, whatever they held before, and leaves the graph alone.
C3_SaveWritesCurrentGraph ==
    [][(last'.op = "save" /\ model[last'.inst] # None)
           => (/\ last'.result = "returned"
               /\ Holds(fs_config'[last'.cpath], fs_weight'[last'.wpath],
                        Get(model[last'.inst]))
               /\ model' = model)]_vars

\* C3 witness: save() returned, the pair holds the graph, and the other
\* weight path still holds the different graph an earlier save() wrote.
C3_Witness ==
    /\ last.op = "save" /\ last.result = "returned"
    /\ Holds(fs_config[last.cpath], fs_weight[last.wpath], Get(model[last.inst]))
    /\ \E w \in WeightPaths \ {last.wpath} :
          /\ ValidPair(fs_config[last.cpath], fs_weight[w])
          /\ load_weights(Get(fs_weight[w])) # Get(model[last.inst]).weights

\* C4: in distributed mode on the canonical paths, save() returns normally
\* whatever step of the push failed, and the local files and the digest are
\* those of a save() whose push succeeded: the graph's files and their digest.
C4_PushFailureSwallowed ==
    [][(/\ config.distributed /\ last'.op = "save" /\ model[last'.inst] # None
        /\ last'.cpath = model_best_config_path
        /\ last'.wpath = model_best_weight_path)
           => (/\ last'.result = "returned"
               /\ Holds(fs_config'[model_best_config_path],
                        fs_weight'[model_best_weight_path], Get(model[last'.inst]))
               /\ digest'[last'.inst] =
                    Some(hexdigest(Get(fs_weight'[model_best_weight_path]))))]_vars

\* C4 witness: a save() whose upload of the weight file failed has returned.
C4_Witness ==
    /\ config.distributed
    /\ last.op = "save" /\ last.ftp = "stor_weight" /\ last.result = "returned"
    /\ last.cpath = model_best_config_path /\ last.wpath = model_best_weight_path
    /\ remote.weight # fs_weight[model_best_weight_path]

\* C5: digest starts None; only a load() that returns True or a save() that
\* completes changes it; and after either it is the SHA-256 of the bytes of
\* the weight file at that call's weight_path.
C5_Digest ==
    /\ \A i \in Instances : digest[i] = None
    /\ [][digest' # digest
            => (\/ last'.op = "load" /\ last'.result = "True"
                \/ last'.op = "save" /\ last'.result = "returned")]_vars
    /\ []((\/ last.op = "load" /\ last.result = "True"
           \/ last.op = "save" /\ last.result = "returned")
             => (/\ fs_weight[last.wpath] # Absent
                 /\ digest[last.inst] = Some(hexdigest(Get(fs_weight[last.wpath])))))

\* C5 witness: a load() returned True and the digest is that of its file,
\* which differs from the weights the graph had been built with.
C5_Witness ==
    /\ last.op = "load" /\ last.result = "True"
    /\ digest[last.inst] = Some(hexdigest(Get(fs_weight[last.wpath])))
    /\ fs_weight[last.wpath] # fs_weight[CHOOSE w \in WeightPaths : w # last.wpath]

\* The sessions that got as far as a transfer: a local file was opened for
\* overwriting from the remote store, or an upload was started.
Transfers == {"retr_config", "retr_weight", "stor_config", "stor_weight", "quit", "ok"}

\* C7: a remote fetch or push happens only in distributed mode and only when
\* both requested paths are the canonical best-model paths.
C7_RemoteOnlyForBestSlot ==
    last.ftp \in Transfers
        => (/\ config.distributed
            /\ last.cpath = model_best_config_path
            /\ last.wpath = model_best_weight_path)

\* C10: save() on an instance without a graph ends in an error, leaves the
\* digest None and leaves both files exactly as they were.
C10_FailedSaveLeavesFiles ==
    [][(last'.op = "save" /\ model[last'.inst] = None)
           => (/\ last'.result = "raised"
               /\ digest'[last'.inst] = None
               /\ fs_config' = fs_config /\ fs_weight' = fs_weight)]_vars

\* --------------------------------------------------- claims on two instances

\* C6 as stated: save(c, w) on A, then load(c, w) on a fresh B, makes load()
\* return True and gives B the graph and the digest of A.
C6_RoundTrip ==
    [][(/\ last.op = "save" /\ last.result = "returned"
        /\ last'.op = "load" /\ last'.inst # last.inst
        /\ last'.cpath = last.cpath /\ last'.wpath = last.wpath
        /\ model[last'.inst] = None /\ digest[last'.inst] = None)
           => (/\ last'.result = "True"
               /\ model'[last'.inst] = model[last.inst]
               /\ digest'[last'.inst] = digest[last.inst])]_vars

\* C6 amended: the round trip holds when load() makes no remote fetch
\* attempt (the distributed flag is unset, or config_path is not the
\* canonical best-model architecture path).
C6_RoundTripLocal ==
    [][(/\ last.op = "save" /\ last.result = "returned"
        /\ last'.op = "load" /\ last'.inst # last.inst
        /\ last'.cpath = last.cpath /\ last'.wpath = last.wpath
        /\ model[last'.inst] = None /\ digest[last'.inst] = None
        /\ ~(config.distributed /\ last'.cpath = model_best_config_path))
           => (/\ last'.result = "True"
               /\ last'.ftp = "none"
               /\ model'[last'.inst] = model[last.inst]
               /\ digest'[last'.inst] = digest[last.inst])]_vars

\* C6 witness: in distributed mode a fresh BetterChessModel has loaded, from
\* a non-canonical architecture path, the graph the ChessModel holds.
C6_Witness ==
    /\ config.distributed
    /\ last.op = "load" /\ last.inst = "b" /\ last.result = "True"
    /\ last.cpath # model_best_config_path
    /\ model["a"] # None /\ model["b"] = model["a"] /\ digest["b"] = digest["a"]

\* ------------------------------------------------------- claims on pipes

Owned(i) == {k \in DOMAIN endpoints : endpoints[k].owner = i}
PipesOf(a) == IF a = None THEN 0 ELSE endpoints[Get(a)].pipes

\* C8: an instance has at most one endpoint, started exactly once, created
\* by its first get_pipes call; each get_pipes(num) returns num new channels
\* of that endpoint.
C8_OneEndpoint ==
    /\ [](\A i \in Instances :
            /\ Cardinality(Owned(i)) <= 1
            /\ (api[i] = None <=> Owned(i) = {})
            /\ (api[i] # None => Owned(i) = {Get(api[i])})
            /\ \A k \in Owned(i) : endpoints[k].started = 1)
    /\ [][last'.op # "get_pipes" => (api' = api /\ endpoints' = endpoints)]_vars
    /\ [][last'.op = "get_pipes"
            => (/\ api'[last'.inst] # None
                /\ (api[last'.inst] # None => api' = api /\ Len(endpoints') = Len(endpoints))
                /\ Len(last'.pipes) = last'.num
                /\ \A k \in 1..Len(last'.pipes) :
                      /\ last'.pipes[k][1] = Get(api'[last'.inst])
                      /\ last'.pipes[k][2] > PipesOf(api[last'.inst])
                      /\ \A j \in 1..Len(last'.pipes) :
                            last'.pipes[j] = last'.pipes[k] => j = k)]_vars

\* C8 witness: a second get_pipes call returned two channels of the endpoint
\* that had already handed out one.
C8_Witness ==
    /\ last.op = "get_pipes" /\ last.num = 2
    /\ last.pipes = << <<Get(api["a"]), 2>>, <<Get(api["a"]), 3>> >>
    /\ Len(endpoints) = 1 /\ endpoints[1].started = 1
    /\ model["a"] # None

\* ------------------------------------------------------- claims on build

\* C9: build() of either class completes and leaves a graph with an 18x8x8
\* input, a policy output of width config.n_labels and a value output of
\* width 1.
C9_BuildCompletes ==
    last.op = "build"
        => (/\ last.result = "returned"
            /\ model[last.inst] # None
            /\ Get(model[last.inst]).arch.input = <<18, 8, 8>>
            /\ Get(model[last.inst]).arch.policy_out = config.n_labels
            /\ Get(model[last.inst]).arch.value_out = 1)

====
